---------------------------- MODULE Spec2Model ----------------------------
(***************************************************************************)
(* State-machine model of the ZHA diagnostic helpers:                      *)
(*   scan_device.py  scan_results / scan_endpoint / scan_cluster and the   *)
(*                   three paginated discovery coroutines, with the        *)
(*                   retryable wrappers around every transport request     *)
(*   zdo.py          the administrative leave command                      *)
(* One coroutine runs at a time; every await (transport response, pacing   *)
(* sleep, retry delay) is a step of the model.  The peer device and the    *)
(* radio are the environment: they answer each request with a page, a      *)
(* status, a delivery failure or a timeout.                                *)
(***************************************************************************)
EXTENDS Integers, Sequences, FiniteSets, TLC

VARIABLES
    entry,        \* the coroutine the caller invoked
    pc,           \* position of the running coroutine
    fn,           \* the discovery coroutine in progress: "attr", "rec", "gen", "none"
    result,       \* its result dict, in insertion order: sequence of <<key, entry>>
    cur,          \* attr_id / cmd_id
    done,         \* completion flag of the paging loop
    rsp,          \* last response payload handed to the loop body
    to_read,      \* attribute ids still to read
    chunk,        \* the batch being read
    req,          \* arguments bound by the retry wrapper ("none" when no call is open)
    tries,        \* tries remaining in zigpy.util.retry
    outstanding,  \* number of transport requests awaiting their response
    exc,          \* exception that left the coroutine ("none" when none)
    retval,       \* value returned by the discovery coroutine
    dev,          \* the scanned device: endpoints in dict order
    epi,          \* scan_results: index of the endpoint being visited
    endpoints,    \* scan_results: endpoint reports appended so far
    side,         \* scan_endpoint: "in" or "out" cluster loop
    cli,          \* scan_endpoint: index of the cluster being visited
    clusters,     \* scan_endpoint: clusters dict, insertion order
    epresult,     \* scan_endpoint: result dict
    is_server,    \* scan_cluster: role argument
    creport,      \* scan_cluster: the dict display being evaluated
    scanret,      \* value returned by scan_results / scan_cluster
    largs,        \* leave: its ieee and data arguments
    zdo_calls,    \* leave: ZDO requests issued on the transport
    lookups,      \* leave: app.get_device calls made
    warnings,     \* leave: LOGGER.warning calls made
    \* history of the run, kept for the properties only
    seen,         \* id -> last record received for it in the current paging loop
    endedBy,      \* how the current paging loop ended
    invocations,  \* invocations of the wrapped request for the current logical request
    lastcall,     \* outcome of the last finished retry-wrapped call
    npages,       \* record pages received in the current paging loop
    reads,        \* the batches handed to read_attr, in order
    valued,       \* ids returned in the succeeded map of a completed batch read
    repeated,     \* whether some id was received more than once in the current paging loop
    produced,     \* scan_cluster: what each command discovery returned
    order,        \* kinds of the requests issued for the current cluster, in order
    starts,       \* start indices of the page requests of the current paging loop
    paced,        \* a pacing sleep has ended since the last request of the current loop
    below,        \* a record of the current loop had an id below the start index asked
    \* the peer device
    raw           \* the byte string the device holds for attribute 1

vars == <<entry, pc, fn, result, cur, done, rsp, to_read, chunk, req, tries,
          outstanding, exc, retval, dev, epi, endpoints, side, cli, clusters,
          epresult, is_server, creport, scanret, largs, zdo_calls, lookups,
          warnings, seen, endedBy, invocations, lastcall, npages, reads, valued,
          repeated, produced, order, starts, paced, below, raw>>

discVars == <<fn, result, cur, done, rsp, to_read, chunk, retval>>
callVars == <<req, tries, outstanding, invocations, lastcall>>
scanVars == <<dev, epi, endpoints, side, cli, clusters, epresult, is_server,
              creport, scanret>>
leaveVars == <<largs, zdo_calls, lookups, warnings>>
histVars == <<seen, endedBy, npages, reads, valued, repeated>>
traceVars == <<produced, order, starts, paced, below>>

----------------------------------------------------------------------------
(* Bounds of the exploration.                                              *)

\* attribute / command ids the peer reports when one discovery coroutine is
\* run on its own: 0..MaxId
MaxId == 4
\* longest ascending run of ids in one page
MaxPageLen == 4
\* longest byte string the device holds for an attribute
MaxBytes == 3
\* record pages answered with the completion flag false, per paging loop
MaxPages == 2

(* Program constants.                                                      *)
\* (variant: one more try)
TriesSix == 5 + 1
Tries == 5        \* retryable(..., tries=5)
PageSize == 16    \* discover_*(start, 16, ...)
ChunkSize == 4    \* to_read[:4]

None == "None"

----------------------------------------------------------------------------
(* Python values: dicts keep insertion order; strings that are formatted,  *)
(* parsed or compared are sequences of characters.                         *)

Range(s) == {s[i] : i \in 1..Len(s)}

DictHas(d, k) == \E i \in 1..Len(d) : d[i][1] = k
DictIdx(d, k) == CHOOSE i \in 1..Len(d) : d[i][1] = k
DictGet(d, k) == d[DictIdx(d, k)][2]
DictKeys(d) == [i \in 1..Len(d) |-> d[i][1]]
\* (variant: a key already present keeps its first value)
DictSetFirstWins(d, k, v) == IF DictHas(d, k) THEN d ELSE Append(d, <<k, v>>)
\* d[k] = v
DictSet(d, k, v) ==
    IF DictHas(d, k) THEN [d EXCEPT ![DictIdx(d, k)] = <<k, v>>]
    ELSE Append(d, <<k, v>>)

\* ord(c) of the characters that occur in formatted numbers
Ord(c) ==
    CASE c = "0" -> 48 [] c = "1" -> 49 [] c = "2" -> 50 [] c = "3" -> 51
      [] c = "4" -> 52 [] c = "5" -> 53 [] c = "6" -> 54 [] c = "7" -> 55
      [] c = "8" -> 56 [] c = "9" -> 57 [] c = "A" -> 65 [] c = "B" -> 66
      [] c = "C" -> 67 [] c = "D" -> 68 [] c = "E" -> 69 [] c = "F" -> 70
      [] c = "a" -> 97 [] c = "b" -> 98 [] c = "c" -> 99 [] c = "d" -> 100
      [] c = "e" -> 101 [] c = "f" -> 102 [] c = "x" -> 120 [] c = "z" -> 122

\* the lower-case hex digit of d
HexChar(d) ==
    <<"0", "1", "2", "3", "4", "5", "6", "7", "8", "9",
      "a", "b", "c", "d", "e", "f">>[d + 1]

RECURSIVE HexDigits(_)
HexDigits(n) ==
    IF n < 16 THEN <<HexChar(n)>>
    ELSE Append(HexDigits(n \div 16), HexChar(n % 16))

RECURSIVE ZeroPad(_, _)
ZeroPad(s, w) == IF Len(s) >= w THEN s ELSE ZeroPad(<<"0">> \o s, w)

\* "0x{:0Wx}".format(n)
HexFormat(n, w) == <<"0", "x">> \o ZeroPad(HexDigits(n), w)

Hex04(n) == HexFormat(n, 4)
Hex02(n) == HexFormat(n, 2)

DecDigit(d) == <<"0", "1", "2", "3", "4", "5", "6", "7", "8", "9">>[d + 1]

\* str(n)
RECURSIVE Str(_)
Str(n) == IF n < 10 THEN DecDigit(n) ELSE Str(n \div 10) \o DecDigit(n % 10)

\* a < b on Python str: code point by code point, a proper prefix is smaller
RECURSIVE StrLess(_, _)
StrLess(a, b) ==
    IF a = <<>> THEN b # <<>>
    ELSE IF b = <<>> THEN FALSE
    ELSE IF a[1] # b[1] THEN Ord(a[1]) < Ord(b[1])
    ELSE StrLess(Tail(a), Tail(b))

\* insertion of one item into an ascending list, after the items not above it
RECURSIVE InsertStr(_, _)
InsertStr(s, it) ==
    IF s = <<>> THEN <<it>>
    ELSE IF StrLess(it[1], s[1][1]) THEN <<it>> \o s
    ELSE <<s[1]>> \o InsertStr(Tail(s), it)

RECURSIVE SortedItemsFrom(_, _)
SortedItemsFrom(acc, d) ==
    IF d = <<>> THEN acc ELSE SortedItemsFrom(InsertStr(acc, d[1]), Tail(d))

\* (variant: the items are left in insertion order)
SortedItemsUnsorted(d) == d
\* OrderedDict(sorted(d.items(), key=lambda k: k[0])) for str keys
SortedItems(d) == SortedItemsFrom(<<>>, d)

RECURSIVE InsertInt(_, _)
InsertInt(s, n) ==
    IF s = <<>> THEN <<n>>
    ELSE IF n < s[1] THEN <<n>> \o s
    ELSE <<s[1]>> \o InsertInt(Tail(s), n)

RECURSIVE SortedIntsFrom(_, _)
SortedIntsFrom(acc, s) ==
    IF s = <<>> THEN acc ELSE SortedIntsFrom(InsertInt(acc, s[1]), Tail(s))

\* sorted(result) for int keys
SortedInts(s) == SortedIntsFrom(<<>>, s)

----------------------------------------------------------------------------
(* The schema collaborator (zigpy): static registries the coroutines query *)
(* with .get(); a missing entry is the normal case.                        *)

\* cluster.attributes: id -> (name, type)
ClusterAttributes == (0 :> "zcl_version") @@ (1 :> "app_version")
\* foundation.DATA_TYPES: type code -> (description, python type, class)
DATA_TYPES == (32 :> <<"uint8_t", "Analog">>) @@ (66 :> <<"CharacterString", "Discrete">>)
\* foundation.AttributeAccessControl
AttributeAccessControl == (1 :> "READ") @@ (2 :> "WRITE") @@ (4 :> "REPORT")
\* cluster.server_commands / cluster.client_commands: id -> (name, args, is_reply)
ServerCommands == (0 :> <<"off", <<>>>>) @@ (1 :> <<"move", <<"uint8_t", "uint16_t">>>>)
ClientCommands == (0 :> <<"query_rsp", <<"Status">>>>)

\* cluster.attributes.get(attrid, (str(attrid), None))[0]
AttrName(id) ==
    IF id \in DOMAIN ClusterAttributes THEN ClusterAttributes[id] ELSE Str(id)

\* foundation.DATA_TYPES.get(datatype), then the names or the hex code
AttrType(dt) == IF dt \in DOMAIN DATA_TYPES THEN DATA_TYPES[dt] ELSE Hex02(dt)

\* foundation.AttributeAccessControl(acl).name, "undefined" on ValueError
AccessName(acl) ==
    IF acl \in DOMAIN AttributeAccessControl THEN AttributeAccessControl[acl]
    ELSE "undefined"

\* the dict stored in result[attr_id]
AttrEntry(r) ==
    [attribute_id |-> Hex04(r.attrid),
     attribute_name |-> AttrName(r.attrid),
     value_type |-> AttrType(r.datatype),
     access |-> AccessName(r.acl)]

\* result[attr_id]["attribute_value"] = value
WithValue(e, v) ==
    [attribute_id |-> e.attribute_id,
     attribute_name |-> e.attribute_name,
     value_type |-> e.value_type,
     access |-> e.access,
     attribute_value |-> v]

\* commands.get(cmd_id, (str(cmd_id), "not_in_zcl", None)) and the argument names
CmdData(schema, id) ==
    IF id \in DOMAIN schema THEN schema[id] ELSE <<Str(id), "not_in_zcl">>

\* the dict stored by discover_commands_received
CmdEntryReceived(id) ==
    [command_id |-> Hex02(id),
     command_name |-> CmdData(ServerCommands, id)[1],
     command_arguments |-> CmdData(ServerCommands, id)[2]]

\* the dict stored by discover_commands_generated
CmdEntryGenerated(id) ==
    [command_id |-> Hex02(id),
     command_Name |-> CmdData(ClientCommands, id)[1],
     command_args |-> CmdData(ClientCommands, id)[2]]

----------------------------------------------------------------------------
(* Attribute values: an int, or a byte string that is decoded.             *)

IntVal(n) == [t |-> "int", v |-> n]
BytesVal(bs) == [t |-> "bytes", v |-> bs]

\* value.split(b"\x00")[0]
RECURSIVE BeforeNull(_)
BeforeNull(bs) ==
    IF bs = <<>> \/ bs[1] = 0 THEN <<>> ELSE <<bs[1]>> \o BeforeNull(Tail(bs))

\* bytes.decode(): UTF-8, strict, to code points; one- and two-byte forms (no
\* byte string of the model starts a longer form); <<FALSE, _>> is
\* UnicodeDecodeError
RECURSIVE Utf8Decode(_)
Utf8Decode(bs) ==
    IF bs = <<>> THEN <<TRUE, <<>>>>
    ELSE IF bs[1] < 128 THEN
        LET rest == Utf8Decode(Tail(bs))
        IN  <<rest[1], <<bs[1]>> \o rest[2]>>
    ELSE IF bs[1] >= 194 /\ bs[1] < 224 /\ Len(bs) >= 2
            /\ bs[2] >= 128 /\ bs[2] < 192 THEN
        LET rest == Utf8Decode(Tail(Tail(bs)))
        IN  <<rest[1], <<(bs[1] - 192) * 64 + (bs[2] - 128)>> \o rest[2]>>
    ELSE <<FALSE, <<>>>>

\* str.isspace() of one code point (below 0x800)
IsSpace(c) == c \in {9, 10, 11, 12, 13, 28, 29, 30, 31, 32, 133, 160}

RECURSIVE LStrip(_)
LStrip(s) == IF s # <<>> /\ IsSpace(s[1]) THEN LStrip(Tail(s)) ELSE s

RECURSIVE RStrip(_)
RStrip(s) ==
    IF s # <<>> /\ IsSpace(s[Len(s)]) THEN RStrip(SubSeq(s, 1, Len(s) - 1)) ELSE s

\* str.strip()
Strip(s) == RStrip(LStrip(s))

\* bytes.hex(), as the code points of its digits
RECURSIVE BytesHex(_)
BytesHex(bs) ==
    IF bs = <<>> THEN <<>>
    ELSE <<Ord(HexChar(bs[1] \div 16)), Ord(HexChar(bs[1] % 16))>>
            \o BytesHex(Tail(bs))

\* (variant: the hex form of the part before the first NUL)
StoredValuePrefixHex(val) ==
    IF val.t = "bytes" THEN
        LET d == Utf8Decode(BeforeNull(val.v))
        IN  IF d[1] THEN Strip(d[2]) ELSE BytesHex(BeforeNull(val.v))
    ELSE val.v
\* the value stored for a value returned by read_attributes: a str is the
\* sequence of its code points
StoredValue(val) ==
    IF val.t = "bytes" THEN
        LET d == Utf8Decode(BeforeNull(val.v))
        IN  IF d[1] THEN Strip(d[2]) ELSE BytesHex(val.v)
    ELSE val.v

----------------------------------------------------------------------------
(* The peer and the radio (the transport collaborator).                    *)

Standalone ==
    entry \in {"discover_attributes_extended", "discover_commands_received",
               "discover_commands_generated"}

\* ids the peer of a whole scan reports
ScanIds == {0}

PeerIds == IF Standalone THEN 0..MaxId ELSE ScanIds
\* ids the peer also reports with an unknown type code and access value
PeerAltIds == IF Standalone THEN {0} ELSE {}

\* an attribute record of a discovery page
AttrRec(i) == [attrid |-> i, datatype |-> 32, acl |-> 1]
AltAttrRec(i) == [attrid |-> i, datatype |-> 254, acl |-> 128]

AttrRecords == {AttrRec(i) : i \in PeerIds} \cup {AltAttrRec(i) : i \in PeerAltIds}

\* ids the peer reports out of order and more than once
ShortIds == {0, 1, 2} \cap PeerIds
ShortAttrRecords == {r \in AttrRecords : r.attrid \in ShortIds}

\* every page of at most two records, in any order, repeats included
ShortPages(R) == {<<>>} \cup {<<a>> : a \in R} \cup {<<a, b>> : a \in R, b \in R}

\* the longer pages: ascending runs of ids
RunStarts(l) == 0..(MaxId + 1 - l)
AttrRuns ==
    UNION {{[i \in 1..l |-> AttrRec(s + i - 1)] : s \in RunStarts(l)} :
            l \in 3..MaxPageLen}
CmdRuns ==
    UNION {{[i \in 1..l |-> s + i - 1] : s \in RunStarts(l)} : l \in 3..MaxPageLen}

\* the widths of the ids: attribute ids are 16 bits wide, command ids 8 bits
AttrIdMax == 65535
CmdIdMax == 255

AttrPages ==
    IF Standalone
    THEN ShortPages(ShortAttrRecords) \cup AttrRuns \cup {<<AttrRec(AttrIdMax)>>}
    ELSE {<<>>} \cup {<<a>> : a \in AttrRecords}
CmdPages ==
    IF Standalone THEN ShortPages(ShortIds) \cup CmdRuns \cup {<<CmdIdMax>>}
    ELSE {<<>>} \cup {<<a>> : a \in PeerIds}

\* record pages a paging loop of a whole scan gets with the flag false
MaxScanPages == 1
PageBudget == IF Standalone THEN MaxPages ELSE MaxScanPages

\* the byte string of attribute 1 when a scan or a discovery is run: b" ZHA\x00X"
HeldBytes == <<32, 90, 72, 65, 0, 88>>

\* bytes that make the cases of the decoding: NUL, space, "A", the two bytes
\* of U+00A0 (a lead byte and a continuation byte), and a byte no text has
ByteAlphabet == {0, 32, 65, 194, 160, 255}

RECURSIVE BytesUpTo(_)
BytesUpTo(n) ==
    IF n = 0 THEN {<<>>}
    ELSE LET shorter == BytesUpTo(n - 1)
         IN  shorter \cup {Append(bs, b) : bs \in shorter, b \in ByteAlphabet}

\* the byte strings the device may hold
ByteStrings == BytesUpTo(MaxBytes)

\* the value the device holds for an attribute
DeviceValue(id) ==
    CASE id = 1 -> BytesVal(raw)
      [] id = 2 -> BytesVal(<<255, 1>>)
      [] OTHER -> IntVal(id + 1)

\* the failures zigpy.util.retry retries
RetryExceptions == {"DeliveryError", "TimeoutError"}

\* except DeliveryError
Catches(e) == e = "DeliveryError"

NoReq == [op |-> "none"]
NoRsp == [status |-> FALSE, page |-> <<>>]

----------------------------------------------------------------------------
(* The loop bodies.                                                        *)

\* for attr_rec in rsp: ... result[attr_id] = {...}; attr_id += 1
RECURSIVE AttrLoop(_, _, _)
AttrLoop(res, id, page) ==
    IF page = <<>> THEN <<res, id>>
    ELSE AttrLoop(DictSet(res, page[1].attrid, AttrEntry(page[1])),
                  page[1].attrid + 1, Tail(page))

\* for cmd_id in rsp: ... result[key] = {...}; cmd_id += 1
CmdEntry(f, id) == IF f = "rec" THEN CmdEntryReceived(id) ELSE CmdEntryGenerated(id)

RECURSIVE CmdLoop(_, _, _, _)
CmdLoop(f, res, id, page) ==
    IF page = <<>> THEN <<res, id>>
    ELSE CmdLoop(f, DictSet(res, Hex02(page[1]), CmdEntry(f, page[1])),
                 page[1] + 1, Tail(page))

PageLoop(f, res, id, page) ==
    IF f = "attr" THEN AttrLoop(res, id, page) ELSE CmdLoop(f, res, id, page)

\* (variant: the loop stops after the first item)
MergeValuesFirstOnly(res, succ) ==
    IF succ = <<>> THEN res
    ELSE DictSet(res, succ[1][1],
                 WithValue(DictGet(res, succ[1][1]), StoredValue(succ[1][2])))
\* for attr_id, value in success.items(): result[attr_id]["attribute_value"] = value
RECURSIVE MergeValues(_, _)
MergeValues(res, succ) ==
    IF succ = <<>> THEN res
    ELSE MergeValues(
            DictSet(res, succ[1][1],
                    WithValue(DictGet(res, succ[1][1]), StoredValue(succ[1][2]))),
            Tail(succ))

\* to_read[:4], to_read[4:]
Take(s, n) == SubSeq(s, 1, IF Len(s) < n THEN Len(s) ELSE n)
Drop(s, n) == SubSeq(s, n + 1, Len(s))

\* OrderedDict([("0x{:04x}".format(a_id), result[a_id]) for a_id in sorted(result)])
AttrReturn(res) ==
    LET ks == SortedInts(DictKeys(res))
    IN  [i \in 1..Len(ks) |-> <<Hex04(ks[i]), DictGet(res, ks[i])>>]

ReturnValue(f, res) == IF f = "attr" THEN AttrReturn(res) ELSE SortedItems(res)

\* where the coroutine goes when its paging loop ends
\* (variant: the values are not read)
AfterLoopNoRead(f) == "return"
\* where a coroutine goes on after its paging loop
AfterLoop(f) == IF f = "attr" THEN "read" ELSE "return"

\* history: the last record received for each id
IdOf(f, r) == IF f = "attr" THEN r.attrid ELSE r
LastIn(f, page, id) ==
    page[CHOOSE i \in 1..Len(page) :
            /\ IdOf(f, page[i]) = id
            /\ \A j \in (i + 1)..Len(page) : IdOf(f, page[j]) # id]
RepeatedIn(f, s, page) ==
    {IdOf(f, page[i]) : i \in {j \in 1..Len(page) :
        \/ IdOf(f, page[j]) \in DOMAIN s
        \/ \E k \in 1..(j - 1) : IdOf(f, page[k]) = IdOf(f, page[j])}}
SeenAfter(f, s, page) ==
    LET ids == {IdOf(f, page[i]) : i \in 1..Len(page)}
    IN  [id \in DOMAIN s \cup ids |-> IF id \in ids THEN LastIn(f, page, id) ELSE s[id]]

----------------------------------------------------------------------------
(* The discovery coroutines.                                               *)

\* the locals of a discovery coroutine at its first line
EnterDiscovery(f) ==
    /\ fn' = f
    /\ result' = <<>>
    /\ cur' = 0
    /\ done' = FALSE
    /\ rsp' = NoRsp
    /\ to_read' = <<>>
    /\ chunk' = <<>>
    /\ retval' = <<>>
    /\ seen' = <<>>
    /\ endedBy' = "none"
    /\ npages' = 0
    /\ reads' = <<>>
    /\ valued' = {}
    /\ repeated' = FALSE

\* zigpy.util.retry is entered with the bound arguments
OpenCall(r) ==
    /\ req' = r
    /\ tries' = Tries
    /\ invocations' = 0
    /\ lastcall' = "none"
    /\ order' = IF order # <<>> /\ order[Len(order)] = r.op THEN order
                ELSE Append(order, r.op)
    /\ paced' = FALSE
    /\ UNCHANGED outstanding

\* the wrapper is left, by return or by raise
CloseCall(outcome) ==
    /\ req' = NoReq
    /\ tries' = 0
    /\ lastcall' = outcome
    /\ outstanding' = outstanding - 1
    /\ invocations' = IF outcome = "ok" THEN 0 ELSE invocations

\* the paging loop is left: done, rsp and the cursor are not read again (the
\* cursor only by a log message), and the coroutine goes on to its next part
LeaveLoop(how) ==
    /\ endedBy' = how
    /\ done' = FALSE
    /\ rsp' = NoRsp
    /\ cur' = 0
    /\ npages' = 0
    /\ starts' = <<>>
    /\ paced' = TRUE
    /\ below' = FALSE
    /\ pc' = AfterLoop(fn)

\* while not done: ... await wrapper(cluster.discover_*, id, 16, ...)
PageCall ==
    /\ pc = "loop" /\ ~done
    /\ OpenCall([op |-> fn, start |-> cur, size |-> PageSize])
    /\ starts' = Append(starts, cur)
    /\ pc' = "send"
    /\ UNCHANGED <<entry, raw, produced, below, discVars, exc, scanVars, leaveVars, histVars>>

\* while not done: the flag is set
LoopExit ==
    /\ pc = "loop" /\ done
    /\ LeaveLoop("done")
    /\ UNCHANGED <<entry, raw, produced, order, fn, result, to_read, chunk, retval, callVars, exc,
                   scanVars, leaveVars, seen, reads, valued, repeated>>

\* (variant: the request is sent again while the last one is in flight)
InvokeWithoutAwait ==
    /\ pc \in {"send", "wait"} /\ outstanding < 2
    /\ outstanding' = outstanding + 1
    /\ invocations' = IF pc = "send" THEN invocations + 1 ELSE invocations
    /\ pc' = "wait"
    /\ UNCHANGED <<entry, raw, traceVars, discVars, req, tries, lastcall, exc,
                   scanVars, leaveVars, histVars>>
\* retry: r = await func(): the wrapped request goes out
Invoke ==
    /\ pc = "send"
    /\ outstanding' = outstanding + 1
    /\ invocations' = invocations + 1
    /\ pc' = "wait"
    /\ UNCHANGED <<entry, raw, traceVars, discVars, req, tries, lastcall, exc, scanVars,
                   leaveVars, histVars>>

\* the peer answers a discovery request with a page of records
RecvPage ==
    /\ pc = "wait" /\ req.op \in {"attr", "rec", "gen"}
    /\ \E d \in BOOLEAN, p \in (IF fn = "attr" THEN AttrPages ELSE CmdPages) :
        /\ ~d => npages + 1 < PageBudget
        /\ done' = d
        /\ rsp' = [status |-> FALSE, page |-> p]
    /\ CloseCall("ok")
    /\ pc' = "sleep_req"
    /\ UNCHANGED <<entry, raw, traceVars, fn, result, cur, to_read, chunk, retval, exc,
                   scanVars, leaveVars, histVars>>

\* the peer answers a discovery request with a bare status
RecvStatus ==
    /\ pc = "wait" /\ req.op \in {"attr", "rec", "gen"}
    /\ \E d \in BOOLEAN : done' = d
    /\ rsp' = [status |-> TRUE, page |-> <<>>]
    /\ CloseCall("ok")
    /\ pc' = "sleep_req"
    /\ UNCHANGED <<entry, raw, traceVars, fn, result, cur, to_read, chunk, retval, exc,
                   scanVars, leaveVars, histVars>>

\* retry: except retry_exceptions, tries remain: count down and sleep(delay)
RecvFailRetry ==
    /\ pc = "wait"
    /\ tries > 1
    /\ \E e \in RetryExceptions : lastcall' = e
    /\ tries' = tries - 1
    /\ outstanding' = outstanding - 1
    /\ pc' = "retry_sleep"
    /\ UNCHANGED <<entry, raw, traceVars, discVars, req, invocations, exc, scanVars, leaveVars,
                   histVars>>

\* retry: await asyncio.sleep(delay) is over
RetrySleep ==
    /\ pc = "retry_sleep"
    /\ pc' = "send"
    /\ UNCHANGED <<entry, raw, traceVars, discVars, callVars, exc, scanVars, leaveVars, histVars>>

\* retry: except retry_exceptions, no try left: raise; a paging loop catches
\* DeliveryError and breaks, anything else leaves the coroutine
PageFail ==
    /\ pc = "wait" /\ req.op \in {"attr", "rec", "gen"}
    /\ tries <= 1
    /\ \E e \in RetryExceptions :
        /\ CloseCall(e)
        /\ IF Catches(e)
           THEN /\ LeaveLoop("transient")
                /\ exc' = exc
           ELSE /\ endedBy' = "raised"
                /\ pc' = "raised"
                /\ exc' = e
                /\ UNCHANGED <<done, rsp, cur, npages, starts, paced, below>>
    /\ UNCHANGED <<entry, raw, produced, order, fn, result, to_read, chunk, retval, scanVars,
                   leaveVars, seen, reads, valued, repeated>>

\* (variant: a status with the flag false is skipped and the loop goes on)
StatusBreakWhenDone ==
    /\ pc = "sleep_req" /\ rsp.status
    /\ IF done
       THEN LeaveLoop("status")
       ELSE /\ rsp' = NoRsp
            /\ pc' = "sleep_loop"
            /\ UNCHANGED <<endedBy, done, cur, npages, starts, paced, below>>
    /\ UNCHANGED <<entry, raw, produced, order, fn, result, to_read, chunk,
                   retval, callVars, exc, scanVars, leaveVars, seen, reads,
                   valued, repeated>>
\* await asyncio.sleep(0.4 / 0.3) is over and rsp is a Status: break
StatusBreak ==
    /\ pc = "sleep_req" /\ rsp.status
    /\ LeaveLoop("status")
    /\ UNCHANGED <<entry, raw, produced, order, fn, result, to_read, chunk, retval, callVars, exc,
                   scanVars, leaveVars, seen, reads, valued, repeated>>

\* await asyncio.sleep(0.4 / 0.3) is over: the records of the page are stored
\* (rsp is not read again before it is assigned)
ProcessPage ==
    /\ pc = "sleep_req" /\ ~rsp.status
    /\ LET r == PageLoop(fn, result, cur, rsp.page)
       IN  result' = r[1] /\ cur' = r[2]
    /\ seen' = SeenAfter(fn, seen, rsp.page)
    /\ repeated' = (repeated \/ RepeatedIn(fn, seen, rsp.page) # {})
    /\ npages' = npages + 1
    /\ rsp' = NoRsp
    /\ paced' = TRUE
    /\ below' = (below \/ \E i \in 1..Len(rsp.page) : IdOf(fn, rsp.page[i]) < cur)
    /\ pc' = "sleep_loop"
    /\ UNCHANGED <<entry, raw, produced, order, starts, fn, done, to_read, chunk, retval, callVars, exc,
                   scanVars, leaveVars, endedBy, reads, valued>>

\* await asyncio.sleep(0.2) at the end of the loop body is over
LoopSleep ==
    /\ pc = "sleep_loop"
    /\ paced' = TRUE
    /\ pc' = "loop"
    /\ UNCHANGED <<entry, raw, produced, order, starts, below, discVars, callVars, exc, scanVars, leaveVars, histVars>>

\* to_read = list(result.keys()); chunk, to_read = to_read[:4], to_read[4:]
ReadStart ==
    /\ pc = "read"
    /\ chunk' = Take(DictKeys(result), ChunkSize)
    /\ to_read' = Drop(DictKeys(result), ChunkSize)
    /\ pc' = "read_loop"
    /\ UNCHANGED <<entry, raw, traceVars, fn, result, cur, done, rsp, retval, callVars, exc,
                   scanVars, leaveVars, histVars>>

\* while chunk: ... await read_attr(cluster, chunk)
ReadCall ==
    /\ pc = "read_loop" /\ chunk # <<>>
    /\ OpenCall([op |-> "read", attrs |-> chunk])
    /\ reads' = Append(reads, chunk)
    /\ pc' = "send"
    /\ UNCHANGED <<entry, raw, produced, starts, below, discVars, exc, scanVars, leaveVars, seen, endedBy,
                   npages, valued, repeated>>

\* while chunk: no batch is left
ReadExit ==
    /\ pc = "read_loop" /\ chunk = <<>>
    /\ pc' = "return"
    /\ UNCHANGED <<entry, raw, traceVars, discVars, callVars, exc, scanVars, leaveVars, histVars>>

\* the batch read returns (success, failed): the values are stored, the next
\* batch is cut and asyncio.sleep(0.3) starts (the loop also rebinds attr_id,
\* which from here on only a log message reads)
RecvRead ==
    /\ pc = "wait" /\ req.op = "read"
    /\ \E S \in SUBSET Range(chunk) :
       \E F \in {{}, Range(chunk) \ S} :
        LET ord == SelectSeq(chunk, LAMBDA a : a \in S)
            succ == [i \in 1..Len(ord) |-> <<ord[i], DeviceValue(ord[i])>>]
        IN  /\ result' = MergeValues(result, succ)
            /\ valued' = valued \cup S
    /\ chunk' = Take(to_read, ChunkSize)
    /\ to_read' = Drop(to_read, ChunkSize)
    /\ CloseCall("ok")
    /\ pc' = "sleep_read"
    /\ UNCHANGED <<entry, raw, traceVars, fn, cur, done, rsp, retval, exc, scanVars, leaveVars,
                   seen, endedBy, npages, reads, repeated>>

\* (variant: a failed batch is followed by the next one at once)
ReadFailNoSleep ==
    /\ pc = "wait" /\ req.op = "read"
    /\ tries <= 1
    /\ \E e \in RetryExceptions :
        /\ CloseCall(e)
        /\ IF Catches(e)
           THEN /\ chunk' = Take(to_read, ChunkSize)
                /\ to_read' = Drop(to_read, ChunkSize)
                /\ pc' = "read_loop"
                /\ exc' = exc
           ELSE /\ pc' = "raised"
                /\ exc' = e
                /\ UNCHANGED <<chunk, to_read>>
    /\ UNCHANGED <<entry, raw, traceVars, fn, result, cur, done, rsp, retval, scanVars,
                   leaveVars, histVars>>
\* read_attr raises after its last try: DeliveryError is logged and the next
\* batch is cut, anything else leaves the coroutine
ReadFail ==
    /\ pc = "wait" /\ req.op = "read"
    /\ tries <= 1
    /\ \E e \in RetryExceptions :
        /\ CloseCall(e)
        /\ IF Catches(e)
           THEN /\ chunk' = Take(to_read, ChunkSize)
                /\ to_read' = Drop(to_read, ChunkSize)
                /\ pc' = "sleep_read"
                /\ exc' = exc
           ELSE /\ pc' = "raised"
                /\ exc' = e
                /\ UNCHANGED <<chunk, to_read>>
    /\ UNCHANGED <<entry, raw, traceVars, fn, result, cur, done, rsp, retval, scanVars,
                   leaveVars, histVars>>

\* await asyncio.sleep(0.3) after a batch is over
ReadSleep ==
    /\ pc = "sleep_read"
    /\ paced' = TRUE
    /\ pc' = "read_loop"
    /\ UNCHANGED <<entry, raw, produced, order, starts, below, discVars, callVars, exc, scanVars, leaveVars, histVars>>

\* return OrderedDict(...)
Return ==
    /\ pc = "return"
    /\ retval' = ReturnValue(fn, result)
    /\ pc' = "returned"
    /\ UNCHANGED <<entry, raw, traceVars, fn, result, cur, done, rsp, to_read, chunk, callVars,
                   exc, scanVars, leaveVars, histVars>>

Discovery ==
    \/ PageCall \/ LoopExit \/ Invoke \/ RecvPage \/ RecvStatus
    \/ RecvFailRetry \/ RetrySleep \/ PageFail \/ StatusBreak \/ ProcessPage
    \/ LoopSleep \/ ReadStart \/ ReadCall \/ ReadExit \/ RecvRead \/ ReadFail
    \/ ReadSleep \/ Return

IdleScan ==
    /\ dev = <<>> /\ epi = 0 /\ endpoints = <<>> /\ side = "none" /\ cli = 0
    /\ clusters = <<>> /\ epresult = <<>> /\ is_server = TRUE
    /\ creport = <<>> /\ scanret = <<>>

IdleLeave ==
    /\ largs = [ieee |-> None, data |-> [none |-> TRUE, str |-> <<>>]]
    /\ zdo_calls = 0 /\ lookups = 0 /\ warnings = 0

IdleCall ==
    /\ req = NoReq /\ tries = 0 /\ outstanding = 0 /\ invocations = 0
    /\ lastcall = "none" /\ exc = "none"

IdleDiscovery ==
    /\ result = <<>> /\ cur = 0 /\ done = FALSE /\ rsp = NoRsp
    /\ to_read = <<>> /\ chunk = <<>> /\ retval = <<>> /\ seen = <<>>
    /\ endedBy = "none" /\ npages = 0 /\ reads = <<>> /\ valued = {}
    /\ repeated = FALSE
    /\ produced = <<>> /\ order = <<>> /\ starts = <<>> /\ paced = TRUE
    /\ below = FALSE

\* the device of a scan or of a discovery run on its own
IdlePeer == raw = HeldBytes

\* one of the three discovery coroutines is awaited on a cluster
InitDiscovery ==
    /\ \E f \in {"attr", "rec", "gen"} :
        /\ fn = f
        /\ entry = CASE f = "attr" -> "discover_attributes_extended"
                     [] f = "rec" -> "discover_commands_received"
                     [] f = "gen" -> "discover_commands_generated"
    /\ pc = "loop"
    /\ IdleDiscovery /\ IdleCall /\ IdleScan /\ IdleLeave /\ IdlePeer

----------------------------------------------------------------------------
(* scan_cluster, scan_endpoint, scan_results.                              *)

\* the zigpy objects handed to the scan: endpoints, and clusters per
\* endpoint, in the order their dicts iterate
Endpoint(id, ins, outs) ==
    [id |-> id, device_type |-> 256, profile_id |-> 260, model |-> "lamp",
     manufacturer |-> "acme", in_clusters |-> ins, out_clusters |-> outs]

Devices ==
    { <<Endpoint(0, <<>>, <<>>), Endpoint(1, <<6, 0>>, <<25>>)>>,
      <<Endpoint(0, <<>>, <<>>), Endpoint(2, <<>>, <<6>>), Endpoint(1, <<0>>, <<>>)>>,
      <<Endpoint(0, <<>>, <<>>)>> }

DeviceIeee == "00:0d:6f:00:0a:90:69:e7"
DeviceNwk == 4660

\* cluster.ep_attribute
ClusterName(cid) ==
    CASE cid = 0 -> "basic" [] cid = 6 -> "on_off" [] cid = 25 -> "ota"
      [] OTHER -> None

\* the cluster a coroutine awaited on its own is given
LoneCluster == 6

\* ep.in_clusters.values() / ep.out_clusters.values() of the endpoint visited
SideClusters ==
    IF side = "in" THEN dev[epi].in_clusters ELSE dev[epi].out_clusters

\* the cluster being scanned
Cluster == IF entry = "scan_results" THEN SideClusters[cli] ELSE LoneCluster

\* (variant: the received key whatever the role)
CmdsRecKeyFixed(server) == "commands_received"
\* scan_cluster: the keys the two command discoveries are stored under
CmdsRecKey(server) == IF server THEN "commands_received" ELSE "commands_generated"
CmdsGenKey(server) == IF server THEN "commands_generated" ELSE "commands_received"

\* scan_cluster: the dict display before its first await
ReportHead(cid) == [cluster_id |-> Hex04(cid), name |-> ClusterName(cid)]

\* the role scan_endpoint passes for the clusters of a side
RoleOf(s) == TRUE

\* for epid, ep in device.endpoints.items(): exhausted; return result
ScanReturn ==
    /\ pc = "scan_ep" /\ epi > Len(dev)
    /\ scanret' = ("endpoints" :> endpoints) @@ scanret
    /\ pc' = "scan_done"
    /\ UNCHANGED <<entry, raw, traceVars, discVars, callVars, exc, dev, epi, endpoints, side,
                   cli, clusters, epresult, is_server, creport, leaveVars,
                   histVars>>

\* if epid == 0: continue
SkipEndpoint ==
    /\ pc = "scan_ep" /\ epi <= Len(dev) /\ dev[epi].id = 0
    /\ epi' = epi + 1
    /\ UNCHANGED <<entry, raw, traceVars, pc, discVars, callVars, exc, dev, endpoints, side,
                   cli, clusters, epresult, is_server, creport, scanret,
                   leaveVars, histVars>>

\* model and manufacturer are stored and scan_endpoint(ep) is entered
EnterEndpoint ==
    /\ pc = "scan_ep" /\ epi <= Len(dev) /\ dev[epi].id # 0
    /\ scanret' = ("model" :> dev[epi].model)
                    @@ ("manufacturer" :> dev[epi].manufacturer) @@ scanret
    /\ epresult' = <<>>
    /\ clusters' = <<>>
    /\ side' = "in"
    /\ cli' = 1
    /\ pc' = "scan_cl"
    /\ UNCHANGED <<entry, raw, traceVars, discVars, callVars, exc, dev, epi, endpoints,
                   is_server, creport, leaveVars, histVars>>

\* for cluster in ep.<side>_clusters.values(): await scan_cluster(cluster, ...)
EnterCluster ==
    /\ pc = "scan_cl" /\ cli <= Len(SideClusters)
    /\ is_server' = RoleOf(side)
    /\ creport' = ReportHead(SideClusters[cli])
    /\ EnterDiscovery("attr")
    /\ produced' = <<>>
    /\ order' = <<>>
    /\ pc' = "loop"
    /\ UNCHANGED <<entry, raw, starts, paced, below, callVars, exc, dev, epi,
                   endpoints, side, cli, clusters, epresult, scanret, leaveVars>>

\* result["in_clusters"] = OrderedDict(sorted(...)); clusters = {}
InClustersDone ==
    /\ pc = "scan_cl" /\ side = "in" /\ cli > Len(SideClusters)
    /\ epresult' = ("in_clusters" :> SortedItems(clusters)) @@ epresult
    /\ clusters' = <<>>
    /\ side' = "out"
    /\ cli' = 1
    /\ UNCHANGED <<entry, raw, traceVars, pc, discVars, callVars, exc, dev, epi, endpoints,
                   is_server, creport, scanret, leaveVars, histVars>>

\* result["out_clusters"] = OrderedDict(sorted(...)); return result; then
\* endpoint.update(...) and endpoints.append(endpoint) in scan_results
OutClustersDone ==
    /\ pc = "scan_cl" /\ side = "out" /\ cli > Len(SideClusters)
    /\ LET res == ("out_clusters" :> SortedItems(clusters)) @@ epresult
           endpoint == [id |-> dev[epi].id,
                        device_type |-> Hex04(dev[epi].device_type),
                        profile |-> Hex04(dev[epi].profile_id)]
       IN  endpoints' = Append(endpoints, res @@ endpoint)
    /\ epresult' = <<>>
    /\ clusters' = <<>>
    /\ side' = "none"
    /\ cli' = 0
    /\ epi' = epi + 1
    /\ pc' = "scan_ep"
    /\ UNCHANGED <<entry, raw, traceVars, discVars, callVars, exc, dev, is_server, creport,
                   scanret, leaveVars, histVars>>

InScan == entry \in {"scan_results", "scan_cluster"}

\* "attributes": await discover_attributes_extended(cluster) has returned
AttributesDone ==
    /\ pc = "returned" /\ InScan /\ fn = "attr"
    /\ creport' = ("attributes" :> retval) @@ creport
    /\ EnterDiscovery("rec")
    /\ pc' = "loop"
    /\ UNCHANGED <<entry, raw, traceVars, callVars, exc, dev, epi, endpoints, side, cli,
                   clusters, epresult, is_server, scanret, leaveVars>>

\* cmds_rec: await discover_commands_received(cluster, is_server) has returned
ReceivedDone ==
    /\ pc = "returned" /\ InScan /\ fn = "rec"
    /\ creport' = (CmdsRecKey(is_server) :> retval) @@ creport
    /\ EnterDiscovery("gen")
    /\ produced' = ("rec" :> retval) @@ produced
    /\ pc' = "loop"
    /\ UNCHANGED <<entry, raw, order, starts, paced, below, callVars, exc, dev, epi,
                   endpoints, side, cli, clusters, epresult, is_server, scanret,
                   leaveVars>>

\* cmds_gen: await discover_commands_generated(cluster, is_server) has
\* returned, and scan_cluster returns its dict
GeneratedDone ==
    /\ pc = "returned" /\ InScan /\ fn = "gen"
    /\ LET report == (CmdsGenKey(is_server) :> retval) @@ creport
       IN  IF entry = "scan_results"
           THEN /\ clusters' = DictSet(clusters, Hex04(Cluster), report)
                /\ cli' = cli + 1
                /\ pc' = "scan_cl"
                /\ UNCHANGED scanret
           ELSE /\ scanret' = report
                /\ pc' = "scan_done"
                /\ UNCHANGED <<clusters, cli>>
    /\ creport' = <<>>
    /\ EnterDiscovery("none")
    /\ produced' = ("gen" :> retval) @@ produced
    /\ UNCHANGED <<entry, raw, order, starts, paced, below, callVars, exc, dev, epi,
                   endpoints, side, epresult, is_server, leaveVars>>

Scan ==
    \/ ScanReturn \/ SkipEndpoint \/ EnterEndpoint \/ EnterCluster
    \/ InClustersDone \/ OutClustersDone \/ AttributesDone \/ ReceivedDone
    \/ GeneratedDone

\* scan_results(device) is awaited
InitScan ==
    /\ entry = "scan_results"
    /\ dev \in Devices
    /\ pc = "scan_ep"
    /\ epi = 1 /\ endpoints = <<>> /\ side = "none" /\ cli = 0
    /\ clusters = <<>> /\ epresult = <<>> /\ is_server = TRUE /\ creport = <<>>
    /\ scanret = [ieee |-> DeviceIeee, nwk |-> Hex04(DeviceNwk)]
    /\ fn = "none"
    /\ IdleDiscovery /\ IdleCall /\ IdleLeave /\ IdlePeer

\* scan_cluster(cluster, is_server) is awaited on one cluster
InitCluster ==
    /\ entry = "scan_cluster"
    /\ is_server \in BOOLEAN
    /\ creport = ReportHead(LoneCluster)
    /\ pc = "loop"
    /\ fn = "attr"
    /\ dev = <<>> /\ epi = 0 /\ endpoints = <<>> /\ side = "none" /\ cli = 0
    /\ clusters = <<>> /\ epresult = <<>> /\ scanret = <<>>
    /\ IdleDiscovery /\ IdleCall /\ IdleLeave /\ IdlePeer

----------------------------------------------------------------------------
(* zdo.leave.                                                              *)

\* nwk addresses app.get_device knows
AppDevices == {1}

\* a str argument that may be None
NoStr == [none |-> TRUE, str |-> <<>>]
PyStr(cs) == [none |-> FALSE, str |-> cs]

\* the data arguments tried: None, "", "1", "1f", "z"
LeaveData ==
    {NoStr, PyStr(<<>>), PyStr(<<"1">>), PyStr(<<"1", "f">>), PyStr(<<"z">>)}
LeaveIeee == {None, DeviceIeee}

\* not data
Falsy(x) == x.none \/ x.str = <<>>

\* the value of a hex digit, -1 for any other character
HexValue(c) ==
    IF Ord(c) >= 48 /\ Ord(c) <= 57 THEN Ord(c) - 48
    ELSE IF Ord(c) >= 97 /\ Ord(c) <= 102 THEN Ord(c) - 87
    ELSE IF Ord(c) >= 65 /\ Ord(c) <= 70 THEN Ord(c) - 55
    ELSE -1

\* int(data, base=16) of a string of digits; -1 is ValueError
RECURSIVE IntBase16(_, _)
IntBase16(acc, str) ==
    IF str = <<>> THEN acc
    ELSE IF HexValue(str[1]) < 0 THEN -1
    ELSE IntBase16(acc * 16 + HexValue(str[1]), Tail(str))

\* (variant: both have to be missing)
LeaveGuardBoth(ieee, data) == ieee = None /\ Falsy(data)
\* if ieee is None or not data
LeaveGuard(ieee, data) == ieee = None \/ Falsy(data)

\* the guard holds: LOGGER.warning(...) and return
LeaveReject ==
    /\ pc = "leave" /\ LeaveGuard(largs.ieee, largs.data)
    /\ warnings' = warnings + 1
    /\ pc' = "leave_done"
    /\ UNCHANGED <<entry, raw, traceVars, discVars, callVars, exc, scanVars, largs, zdo_calls,
                   lookups, histVars>>

\* int(data, base=16) raises ValueError
LeaveBadData ==
    /\ pc = "leave" /\ ~LeaveGuard(largs.ieee, largs.data)
    /\ IntBase16(0, largs.data.str) < 0
    /\ exc' = "ValueError"
    /\ pc' = "raised"
    /\ UNCHANGED <<entry, raw, traceVars, discVars, callVars, scanVars, leaveVars, histVars>>

\* app.get_device(nwk=parent) raises KeyError
LeaveNoParent ==
    /\ pc = "leave" /\ ~LeaveGuard(largs.ieee, largs.data)
    /\ IntBase16(0, largs.data.str) >= 0
    /\ IntBase16(0, largs.data.str) \notin AppDevices
    /\ lookups' = lookups + 1
    /\ exc' = "KeyError"
    /\ pc' = "raised"
    /\ UNCHANGED <<entry, raw, traceVars, discVars, callVars, scanVars, largs, zdo_calls,
                   warnings, histVars>>

\* res = await parent.zdo.request(Mgmt_Leave_req, ieee, 0x02): the request goes out
LeaveRequest ==
    /\ pc = "leave" /\ ~LeaveGuard(largs.ieee, largs.data)
    /\ IntBase16(0, largs.data.str) \in AppDevices
    /\ lookups' = lookups + 1
    /\ zdo_calls' = zdo_calls + 1
    /\ outstanding' = outstanding + 1
    /\ pc' = "leave_wait"
    /\ UNCHANGED <<entry, raw, traceVars, discVars, req, tries, invocations, lastcall, exc,
                   scanVars, largs, warnings, histVars>>

\* the ZDO request returns, or raises: leave has no handler of its own
LeaveResponse ==
    /\ pc = "leave_wait"
    /\ outstanding' = outstanding - 1
    /\ \E e \in {"none"} \cup RetryExceptions :
        /\ exc' = e
        /\ pc' = IF e = "none" THEN "leave_done" ELSE "raised"
    /\ UNCHANGED <<entry, raw, traceVars, discVars, req, tries, invocations, lastcall,
                   scanVars, leaveVars, histVars>>

Leave ==
    \/ LeaveReject \/ LeaveBadData \/ LeaveNoParent \/ LeaveRequest
    \/ LeaveResponse

\* leave(app, listener, ieee, cmd, data, service) is awaited
InitLeave ==
    /\ entry = "leave"
    /\ largs \in [ieee : LeaveIeee, data : LeaveData]
    /\ zdo_calls = 0 /\ lookups = 0 /\ warnings = 0
    /\ pc = "leave"
    /\ fn = "none"
    /\ IdleDiscovery /\ IdleCall /\ IdleScan /\ IdlePeer

----------------------------------------------------------------------------
Init == InitDiscovery \/ InitCluster \/ InitScan \/ InitLeave

Next == Discovery \/ Scan \/ Leave

Spec == Init /\ [][Next]_vars

\* discover_attributes_extended has left its paging loop with attribute 1
\* discovered, on a device that holds any byte string for it
InitValue ==
    /\ entry = "discover_attributes_extended"
    /\ fn = "attr"
    /\ pc = "read"
    /\ raw \in ByteStrings
    /\ result = << <<1, AttrEntry(AttrRec(1))>> >>
    /\ seen = (1 :> AttrRec(1))
    /\ endedBy = "done"
    /\ lastcall = "ok"
    /\ cur = 0 /\ done = FALSE /\ rsp = NoRsp
    /\ to_read = <<>> /\ chunk = <<>> /\ retval = <<>>
    /\ npages = 0 /\ reads = <<>> /\ valued = {} /\ repeated = FALSE
    /\ produced = <<>> /\ order = <<"attr">> /\ starts = <<>> /\ paced = TRUE
    /\ below = FALSE
    /\ req = NoReq /\ tries = 0 /\ outstanding = 0 /\ invocations = 0
    /\ exc = "none"
    /\ IdleScan /\ IdleLeave

\* the steps of the value reader
ValueReader ==
    \/ ReadStart \/ ReadCall \/ Invoke \/ RecvRead \/ RecvFailRetry
    \/ RetrySleep \/ ReadFail \/ ReadSleep \/ ReadExit \/ Return

SpecValue == InitValue /\ [][ValueReader]_vars

----------------------------------------------------------------------------
(* Properties.                                                             *)

Returned == pc = "returned"

\* the key a discovery coroutine files an id under
KeyOf(f, id) == IF f = "attr" THEN Hex04(id) ELSE Hex02(id)

\* the numeric id a key "0x..." stands for
KeyNum(k) == IntBase16(0, SubSeq(k, 3, Len(k)))

\* the entry built from one received record
EntryOf(f, r) == IF f = "attr" THEN AttrEntry(r) ELSE CmdEntry(f, r)

HasValue(e) == "attribute_value" \in DOMAIN e

\* an attribute entry without the value the reader may have added
Discovered(f, e) ==
    IF f = "attr"
    THEN [attribute_id |-> e.attribute_id, attribute_name |-> e.attribute_name,
          value_type |-> e.value_type, access |-> e.access]
    ELSE e

\* the returned map holds one entry per id received, built from the last
\* record received for it
ReturnsSeen ==
    /\ Len(retval) = Cardinality(DOMAIN seen)
    /\ {retval[i][1] : i \in 1..Len(retval)} = {KeyOf(fn, id) : id \in DOMAIN seen}
    /\ \A i \in 1..Len(retval) :
        \A id \in DOMAIN seen :
            retval[i][1] = KeyOf(fn, id)
                => Discovered(fn, retval[i][2]) = EntryOf(fn, seen[id])

\* C1: a page request that fails with a delivery failure or a timeout after
\* the retries ends the paging loop, no exception leaves the coroutine, and
\* the coroutine returns exactly the records of the pages received before
C1_TransientFailureTruncates ==
    /\ endedBy # "raised"
    /\ (Returned /\ endedBy = "transient" => ReturnsSeen)

NonZero(d) == SelectSeq(d, LAMBDA e : e.id # 0)
ClusterKeys(cs) == {Hex04(cs[i]) : i \in 1..Len(cs)}
MapKeys(m) == {m[i][1] : i \in 1..Len(m)}

\* one endpoint report per non-zero endpoint, one cluster report per cluster
ReportComplete(d, rep) ==
    /\ Len(rep.endpoints) = Len(NonZero(d))
    /\ \A i \in 1..Len(rep.endpoints) :
        LET ep == NonZero(d)[i]
            er == rep.endpoints[i]
        IN  /\ er.id = ep.id
            /\ Len(er.in_clusters) = Len(ep.in_clusters)
            /\ MapKeys(er.in_clusters) = ClusterKeys(ep.in_clusters)
            /\ Len(er.out_clusters) = Len(ep.out_clusters)
            /\ MapKeys(er.out_clusters) = ClusterKeys(ep.out_clusters)

\* C2: whatever requests fail (delivery failure, timeout, status), the scan
\* is never aborted and returns a report with every non-zero endpoint and
\* every cluster of it
C2_ScanNeverAborts ==
    entry = "scan_results" =>
        /\ pc # "raised"
        /\ (pc = "scan_done" => ReportComplete(dev, scanret))

\* C3: when the paging loop ends on a record page with the completion flag
\* true, the returned map has exactly one entry per distinct id received, and
\* the entry of an id received more than once is built from its last record
C3_UnionLastWins == Returned /\ endedBy = "done" => ReturnsSeen

\* id 0 alone was received, more than once, its unknown-access record last
C3_Witness ==
    /\ Returned /\ fn = "attr" /\ endedBy = "done"
    /\ repeated
    /\ Len(retval) = 1
    /\ retval[1][2].access = "undefined"

\* C4: a logical request is invoked at most 5 times; it is invoked again only
\* after a delivery failure or a timeout; after a success the call is over;
\* a failure is propagated only when 5 invocations have failed, and it is the
\* failure of the last one
C4_RetryBound ==
    /\ invocations <= 5
    /\ (pc = "send" /\ invocations > 0 => lastcall \in RetryExceptions)
    /\ (lastcall = "ok" => req = NoReq /\ pc \notin {"send", "wait", "retry_sleep"})
    /\ (req = NoReq /\ lastcall \in RetryExceptions => invocations = 5)
    /\ (pc = "raised" /\ fn # "none" => exc = lastcall /\ invocations = 5)

C4_Witness ==
    /\ pc = "raised" /\ fn = "rec"
    /\ exc = "TimeoutError" /\ lastcall = "TimeoutError"
    /\ invocations = 5

RECURSIVE Flatten(_)
Flatten(ss) == IF ss = <<>> THEN <<>> ELSE ss[1] \o Flatten(Tail(ss))

\* discover_attributes_extended has ended after its paging loop was over
ReadPhaseOver == fn = "attr" /\ (Returned \/ (pc = "raised" /\ endedBy # "raised"))

\* C5: the value reader cuts the N discovered ids into consecutive batches of
\* at most 4, requests every id in exactly one batch, and issues exactly
\* ceil(N/4) batch reads
C5_BatchPartition ==
    /\ \A i \in 1..Len(reads) : Len(reads[i]) <= 4
    /\ (ReadPhaseOver =>
            /\ Flatten(reads) = DictKeys(result)
            /\ Len(reads) = (Len(result) + 3) \div 4)

\* C6: a batch read that fails with a delivery failure or a timeout after the
\* retries leaves its records without a value, keeps the values of the
\* earlier batches, and does not leave discover_attributes_extended
C6_BatchFailureSkipped ==
    /\ ~(fn = "attr" /\ pc = "raised" /\ endedBy # "raised")
    /\ (fn = "attr" =>
            \A i \in 1..Len(result) :
                HasValue(result[i][2]) <=> result[i][1] \in valued)

\* C7: the returned attribute map has one entry per distinct discovered id,
\* and an entry has an attribute_value exactly when its id was in the
\* succeeded map of a completed batch read
C7_ValueIffSucceeded ==
    Returned /\ fn = "attr" =>
        /\ Len(retval) = Cardinality(DOMAIN seen)
        /\ valued \subseteq DOMAIN seen
        /\ \A i \in 1..Len(retval) :
            HasValue(retval[i][2]) <=> KeyNum(retval[i][1]) \in valued

\* pages 0-3 then 4, the reads succeed for 0-3 only
C7_Witness ==
    /\ Returned /\ fn = "attr"
    /\ DictKeys(result) = <<0, 1, 2, 3, 4>>
    /\ reads = << <<0, 1, 2, 3>>, <<4>> >>
    /\ valued = {0, 1, 2, 3}
    /\ Len(retval) = 5
    /\ ~HasValue(retval[5][2])
    /\ \A i \in 1..4 : HasValue(retval[i][2])

\* a map as emitted: its keys ascend by numeric id
Ascending(m) == \A i \in 1..(Len(m) - 1) : KeyNum(m[i][1]) < KeyNum(m[i + 1][1])

\* the three maps of a finished cluster report
ClusterMapsAscending(r) ==
    /\ Ascending(r.attributes)
    /\ Ascending(r.commands_received)
    /\ Ascending(r.commands_generated)

EndpointMapsAscending(er) ==
    /\ Ascending(er.in_clusters)
    /\ Ascending(er.out_clusters)
    /\ \A i \in 1..Len(er.in_clusters) : ClusterMapsAscending(er.in_clusters[i][2])
    /\ \A i \in 1..Len(er.out_clusters) : ClusterMapsAscending(er.out_clusters[i][2])

\* C8: the cluster maps of an endpoint report and the attribute and command
\* maps of a cluster report are in ascending numeric order of their keys
C8_MapsAscending ==
    /\ (Returned => Ascending(retval))
    /\ \A i \in 1..Len(endpoints) : EndpointMapsAscending(endpoints[i])
    /\ ("in_clusters" \in DOMAIN epresult => Ascending(epresult.in_clusters))
    /\ (entry = "scan_cluster" /\ pc = "scan_done" => ClusterMapsAscending(scanret))

C8_Witness ==
    /\ entry = "scan_results" /\ pc = "scan_done"
    /\ Len(dev) = 2 /\ dev[2].in_clusters = <<6, 0>>
    /\ Len(scanret.endpoints) = 1
    /\ DictKeys(scanret.endpoints[1].in_clusters) = <<Hex04(0), Hex04(6)>>

\* C9: every command entry, received or generated, has exactly the fields
\* command_id, command_name and command_arguments
C9_CommandFields ==
    Returned /\ fn \in {"rec", "gen"} =>
        \A i \in 1..Len(retval) :
            DOMAIN retval[i][2] = {"command_id", "command_name", "command_arguments"}

\* C10: leave called without an ieee makes no device lookup and no ZDO
\* request, and returns after logging one warning
C10_LeaveWithoutIeee ==
    entry = "leave" /\ largs.ieee = None =>
        /\ zdo_calls = 0 /\ lookups = 0 /\ outstanding = 0
        /\ pc \in {"leave", "leave_done"}
        /\ (pc = "leave_done" => warnings = 1)

C10_Witness ==
    /\ entry = "leave" /\ largs.ieee = None /\ largs.data = PyStr(<<"1">>)
    /\ pc = "leave_done" /\ warnings = 1

\* the keys of a cluster report
ReportKeys ==
    {"cluster_id", "name", "attributes", "commands_received", "commands_generated"}

\* a cluster report holds what the two command discoveries returned, under the
\* keys of the role
KeyedByRole(report, server) ==
    /\ DOMAIN report = ReportKeys
    /\ DOMAIN produced = {"rec", "gen"}
    /\ IF server
       THEN /\ report.commands_received = produced.rec
            /\ report.commands_generated = produced.gen
       ELSE /\ report.commands_generated = produced.rec
            /\ report.commands_received = produced.gen

\* scan_cluster has just returned the report of a cluster of the scan
ClusterStored ==
    entry = "scan_results" /\ pc = "scan_cl" /\ fn = "none" /\ cli > 1

\* C11: scanned as server, the report of scan_cluster holds the result of
\* discover_commands_received under commands_received and the result of
\* discover_commands_generated under commands_generated; scanned as client
\* the two keys are swapped; in both roles the report has both keys
C11_RoleKeys ==
    /\ (entry = "scan_cluster" /\ pc = "scan_done" => KeyedByRole(scanret, is_server))
    /\ (ClusterStored =>
            KeyedByRole(DictGet(clusters, Hex04(SideClusters[cli - 1])), is_server))

\* scanned as client, the received commands are under commands_generated
C11_Witness ==
    /\ entry = "scan_cluster" /\ pc = "scan_done" /\ ~is_server
    /\ Len(produced.rec) = 1 /\ produced.gen = <<>>
    /\ scanret.commands_generated = produced.rec
    /\ scanret.commands_received = <<>>

\* the bytes before the first NUL of a byte string
FirstNull(bs) ==
    IF \E i \in 1..Len(bs) : bs[i] = 0
    THEN CHOOSE i \in 1..Len(bs) : bs[i] = 0 /\ \A j \in 1..(i - 1) : bs[j] # 0
    ELSE Len(bs) + 1
UpToNull(bs) == SubSeq(bs, 1, FirstNull(bs) - 1)

\* str.encode() of code points below 0x800
RECURSIVE Utf8Encode(_)
Utf8Encode(cps) ==
    IF cps = <<>> THEN <<>>
    ELSE (IF cps[1] < 128 THEN <<cps[1]>>
          ELSE <<192 + (cps[1] \div 64), 128 + (cps[1] % 64)>>)
            \o Utf8Encode(Tail(cps))

\* out is text without the whitespace at its two ends
Trimmed(text, out) ==
    /\ \E i \in 1..(Len(text) + 1), j \in 0..Len(text) :
        /\ out = SubSeq(text, i, j)
        /\ \A k \in 1..(i - 1) : IsSpace(text[k])
        /\ \A k \in (j + 1)..Len(text) : IsSpace(text[k])
    /\ (out # <<>> => ~IsSpace(out[1]) /\ ~IsSpace(out[Len(out)]))

\* bytes.fromhex() of the code points of an even number of hex digits
RECURSIVE HexDecode(_)
HexDecode(s) ==
    IF Len(s) < 2 THEN <<>>
    ELSE LET hi == IF s[1] >= 97 THEN s[1] - 87 ELSE s[1] - 48
             lo == IF s[2] >= 97 THEN s[2] - 87 ELSE s[2] - 48
         IN  <<hi * 16 + lo>> \o HexDecode(Tail(Tail(s)))

\* the value stored for attribute 1
StoredFor1 == DictGet(result, 1).attribute_value

\* C12: a byte string returned by a batch read is stored as the text of its
\* bytes before the first NUL, trimmed of whitespace; when those bytes are no
\* text it is stored as the hex digits of the whole byte string, which decode
\* back to the original bytes
C12_BytesDecoding ==
    fn = "attr" /\ 1 \in valued =>
        LET d == Utf8Decode(UpToNull(raw))
        IN  IF d[1]
            THEN /\ Utf8Encode(d[2]) = UpToNull(raw)
                 /\ Trimmed(d[2], StoredFor1)
            ELSE /\ Len(StoredFor1) = 2 * Len(raw)
                 /\ HexDecode(StoredFor1) = raw

\* b"\xff\x00A": no text before the NUL, stored as "ff0041"
C12_Witness ==
    /\ Returned /\ fn = "attr" /\ 1 \in valued
    /\ raw = <<255, 0, 65>>
    /\ StoredFor1 = <<102, 102, 48, 48, 52, 49>>
    /\ HexDecode(StoredFor1) = raw

PageOps == {"attr", "rec", "gen"}

\* the result dict holds one entry per id received, built from the last record
\* received for it (before any value is added)
AccumulatedIsSeen ==
    /\ Len(result) = Cardinality(DOMAIN seen)
    /\ \A i \in 1..Len(result) :
        \E id \in DOMAIN seen :
            /\ IF fn = "attr" THEN result[i][1] = id
               ELSE result[i][1] = KeyOf(fn, id)
            /\ Discovered(fn, result[i][2]) = EntryOf(fn, seen[id])

\* once the paging loop was ended by a status: no page request is open, the
\* records accumulated are kept, a command discovery returns, and what is
\* returned is the records accumulated
AfterStatus ==
    endedBy = "status" =>
        /\ req.op \notin PageOps
        /\ pc \notin {"loop", "sleep_req", "sleep_loop"}
        /\ AccumulatedIsSeen
        /\ (fn # "attr" => pc \in {"return", "returned"})
        /\ (Returned => ReturnsSeen)

\* a status response closes the call (it is not retried), and the step after
\* it leaves the loop, whatever the completion flag
StatusStep ==
    rsp.status =>
        /\ req = NoReq /\ lastcall = "ok"
        /\ pc' = AfterLoop(fn) /\ endedBy' = "status"
        /\ result' = result /\ req' = NoReq

\* C13: when a discovery request returns a bare status, the loop issues no
\* further page request of that kind for that cluster, whatever the completion
\* flag of the response, and returns the records of the earlier pages; the
\* status response is not retried
C13_StatusEndsLoop == []AfterStatus /\ [][StatusStep]_vars

\* a status after one page of two records: the two records are returned
C13_Witness ==
    /\ Returned /\ fn = "gen" /\ endedBy = "status"
    /\ Cardinality(DOMAIN seen) = 2
    /\ Len(retval) = 2

\* the ids of the records of a page
PageIds(f, page) == {IdOf(f, page[i]) : i \in 1..Len(page)}
HighestId(f, page) == CHOOSE m \in PageIds(f, page) : \A x \in PageIds(f, page) : x <= m

\* an open page request asks for 16 records from the cursor, and the first of
\* a loop from id 0
PageRequestShape ==
    req.op \in PageOps =>
        /\ req.size = 16
        /\ req.start = cur
        /\ starts # <<>> /\ starts[Len(starts)] = req.start
        /\ starts[1] = 0

\* a non-empty record page with the flag false moves the cursor one past the
\* highest id of the page
CursorStep ==
    pc = "sleep_req" /\ ~rsp.status /\ rsp.page # <<>> /\ ~done =>
        cur' = HighestId(fn, rsp.page) + 1

\* C14: the first page request of a loop starts at id 0 with page size 16,
\* and after a non-empty record page with the flag false the next request
\* starts one past the highest id of that page, whatever the order of its
\* records
C14_CursorPastHighest == []PageRequestShape /\ [][CursorStep]_vars

\* what the loops do: the cursor moves one past the id of the last record
CursorPastLast ==
    [][pc = "sleep_req" /\ ~rsp.status /\ rsp.page # <<>> =>
            cur' = IdOf(fn, rsp.page[Len(rsp.page)]) + 1]_vars

\* C15: at most one transport request is outstanding at any time: a page
\* request, a batch read or a retry of either goes out only when the request
\* before it has returned or failed, one logical request is open at a time,
\* and it belongs to the cluster and the discovery in progress
C15_OneOutstanding ==
    /\ outstanding \in {0, 1}
    /\ (pc \in {"send", "retry_sleep"} => outstanding = 0 /\ req # NoReq)
    /\ (outstanding = 1 => pc \in {"wait", "leave_wait"})
    /\ (pc = "wait" => outstanding = 1 /\ req # NoReq)
    /\ (req # NoReq =>
            /\ pc \in {"send", "wait", "retry_sleep"}
            /\ (req.op \in PageOps => req.op = fn)
            /\ (req.op = "read" => fn = "attr")
            /\ (entry = "scan_results" =>
                    epi \in 1..Len(dev) /\ cli \in 1..Len(SideClusters)))

\* a retry is in flight for a cluster of the second endpoint scanned
C15_Witness ==
    /\ entry = "scan_results" /\ pc = "wait" /\ outstanding = 1
    /\ tries < Tries /\ invocations > 1
    /\ Len(endpoints) = 1 /\ side = "in" /\ fn = "gen"

\* a logical request is opened: a page request or a batch read
Opens == req = NoReq /\ req' # NoReq

\* C16: between two consecutive page requests of one paging loop, and between
\* two consecutive batch reads of the value reader (also when the earlier
\* batch failed), at least one pacing sleep takes place
C16_Paced ==
    [][Opens => paced /\ ~paced' /\ pc \in {"loop", "read_loop"}]_vars

\* the first batch has failed for good, the sleep after it is over and the
\* second batch is about to be read
C16_Witness ==
    /\ fn = "attr" /\ pc = "read_loop" /\ lastcall = "DeliveryError"
    /\ Len(reads) = 1 /\ chunk # <<>>
    /\ paced

\* the kinds of request follow each other by rank
InRankOrder(rank) ==
    \A i \in 1..(Len(order) - 1) : rank[order[i]] < rank[order[i + 1]]

\* the batch reads come after the three discoveries
ReadsLast == ("attr" :> 1) @@ ("rec" :> 2) @@ ("gen" :> 3) @@ ("read" :> 4)
\* the batch reads come right after the attribute discovery
ReadsSecond == ("attr" :> 1) @@ ("read" :> 2) @@ ("rec" :> 3) @@ ("gen" :> 4)

\* C17 as stated: for each scanned cluster the requests go out in the order
\* attribute pages, received-command pages, generated-command pages, batch
\* reads; no batch read goes out before the three discovery loops have ended
C17_ReadsAfterDiscoveries ==
    /\ InRankOrder(ReadsLast)
    /\ (req.op = "read" /\ InScan => DOMAIN produced = {"rec", "gen"})

\* the attribute map of the cluster report just finished
FinishedAttributes ==
    IF entry = "scan_cluster" THEN scanret.attributes
    ELSE DictGet(clusters, Hex04(SideClusters[cli - 1])).attributes

\* C17 as amended: for each scanned cluster the requests go out in the order
\* attribute pages, batch reads, received-command pages, generated-command
\* pages; no batch read goes out before the attribute loop has ended and no
\* command page request before the batch reads have ended
C17_ReadsAfterAttributes ==
    /\ InRankOrder(ReadsSecond)
    /\ (req.op = "read" => fn = "attr" /\ endedBy \in {"done", "status", "transient"})
    /\ (req.op \in {"rec", "gen"} => pc # "read" /\ chunk = <<>> /\ to_read = <<>>)
    /\ ((entry = "scan_cluster" /\ pc = "scan_done") \/ ClusterStored =>
            order = <<"attr">>
                    \o (IF FinishedAttributes # <<>> THEN <<"read">> ELSE <<>>)
                    \o <<"rec", "gen">>)

\* a cluster was scanned with requests of the four kinds
C17_Witness ==
    /\ entry = "scan_cluster" /\ pc = "scan_done"
    /\ order = <<"attr", "read", "rec", "gen">>
    /\ Len(scanret.attributes) = 1
    /\ HasValue(scanret.attributes[1][2])

\* the start indices of the page requests of the loop differ
DistinctStarts ==
    \A i \in 1..Len(starts) : \A j \in 1..Len(starts) :
        i # j => starts[i] # starts[j]

\* C18: for a peer that answers every page request with a completion flag and
\* a page of records whose ids are within the id range and not below the
\* start index asked, the loop ends after finitely many page requests; in
\* particular it never issues two page requests with the same start index
C18_NoRepeatedStart == ~below => DistinctStarts

\* a page with a record moves the cursor past the start index asked, when no
\* id of it is below that index
NonEmptyPageAdvances ==
    [][pc = "sleep_req" /\ ~rsp.status /\ rsp.page # <<>>
        /\ (\A i \in 1..Len(rsp.page) : IdOf(fn, rsp.page[i]) >= cur)
            => cur' > cur]_vars

\* C19: scan_endpoint scans every input cluster in the server role and every
\* output cluster in the client role, so that the report of an output cluster
\* has the received and generated labels flipped
C19_OutClustersAsClient ==
    /\ (entry = "scan_results" /\ fn # "none" => is_server = (side = "in"))
    /\ (ClusterStored /\ side = "out" =>
            LET report == DictGet(clusters, Hex04(SideClusters[cli - 1]))
            IN  /\ report.commands_generated = produced.rec
                /\ report.commands_received = produced.gen)

\* C20: the start index of a page request fits the id width of its kind:
\* 0..0xFFFF for attribute discovery, 0..0xFF for command discovery, whatever
\* pages of ids within those ranges the peer answers
C20_StartFitsWidth ==
    /\ (req.op = "attr" => req.start \in 0..AttrIdMax)
    /\ (req.op \in {"rec", "gen"} => req.start \in 0..CmdIdMax)

\* the ids received are within the width of their kind
IdsFitWidth ==
    \A id \in DOMAIN seen : id \in 0..(IF fn = "attr" THEN AttrIdMax ELSE CmdIdMax)

====
